---- MODULE Spec2Model ----
(***************************************************************************)
(* biome-action: the setup routine (index.js) and the teardown routine     *)
(* (post.js) of a CI job, as processes running on one runner.              *)
(*                                                                         *)
(* A string that the code parses is a sequence of one-character strings;   *)
(* paths, cache keys and messages, which the code only compares or passes  *)
(* on, are plain strings.                                                  *)
(***************************************************************************)
EXTENDS Naturals, Sequences, FiniteSets

\* Longest raw input string (deps, supervisor) that is enumerated.
MaxLen == 3

Chars == {"a", " ", "\n"}

Procs == {"p1", "p2"}

RECURSIVE StringsOfLen(_)
StringsOfLen(n) ==
    IF n = 0 THEN {<<>>}
    ELSE {Append(s, c) : s \in StringsOfLen(n - 1), c \in Chars}

Strings == UNION {StringsOfLen(n) : n \in 0..MaxLen}

TrueStr == <<"t", "r", "u", "e">>

IsSpace(c) == c \in {" ", "\n"}

\* String.prototype.trim
RECURSIVE TrimLeft(_)
TrimLeft(s) ==
    IF s # <<>> /\ IsSpace(Head(s)) THEN TrimLeft(Tail(s)) ELSE s

RECURSIVE TrimRight(_)
TrimRight(s) ==
    IF s # <<>> /\ IsSpace(s[Len(s)]) THEN TrimRight(SubSeq(s, 1, Len(s) - 1)) ELSE s

Trim(s) == TrimRight(TrimLeft(s))

\* core.getInput(name): the value the workflow gives, trimmed ('' when absent)
getInput(raw) == Trim(raw)

\* Array.prototype.filter(x => Boolean(x)) on strings: drops the empty ones
FilterBoolean(l) == SelectSeq(l, LAMBDA x : x # <<>>)

\* last index of the run of whitespace that starts at i
RECURSIVE RunEnd(_, _)
RunEnd(s, i) ==
    IF i < Len(s) /\ IsSpace(s[i + 1]) THEN RunEnd(s, i + 1) ELSE i

\* s.split(/\s+/), from index i on, cur being the piece collected so far
RECURSIVE SplitWs(_, _, _)
SplitWs(s, i, cur) ==
    IF i > Len(s) THEN <<cur>>
    ELSE IF IsSpace(s[i]) THEN <<cur>> \o SplitWs(s, RunEnd(s, i) + 1, <<>>)
    ELSE SplitWs(s, i + 1, Append(cur, s[i]))

\* s.split(/\s*\n\s*/): a separator is a whole run of whitespace holding a newline
RECURSIVE SplitLines(_, _, _)
SplitLines(s, i, cur) ==
    IF i > Len(s) THEN <<cur>>
    ELSE IF IsSpace(s[i])
         THEN LET j == RunEnd(s, i) IN
              IF \E k \in i..j : s[k] = "\n"
              THEN <<cur>> \o SplitLines(s, j + 1, <<>>)
              ELSE SplitLines(s, j + 1, cur \o SubSeq(s, i, j))
    ELSE SplitLines(s, i + 1, Append(cur, s[i]))

\* index.js:13
ParseDeps(in) == FilterBoolean(SplitWs(in, 1, <<>>))

\* index.js:14-20; kind "true" is the value true, "false" the value false,
\* "array" a list of service strings
ParseSupervisor(in) ==
    IF in = TrueStr THEN [kind |-> "true", svcs |-> <<>>]
    ELSE IF in = <<>> THEN [kind |-> "false", svcs |-> <<>>]
    ELSE [kind |-> "array", svcs |-> FilterBoolean(SplitLines(Trim(in), 1, <<>>))]

DEFAULT_CACHE_KEY == "hab-artifacts-cache:workflow"

\* index.js:21
ParseCacheKey(in) == IF in # "" THEN in ELSE DEFAULT_CACHE_KEY

(***************************************************************************)
(* Paths and platform cache entries                                        *)
(***************************************************************************)
CACHE_LOCK_PATH == "/hab/cache/artifacts/.cached"
RESTORE_LOCK_PATH == "/hab/cache/artifacts/.restored"
POST_CACHE_LOCK_PATH == "/hab/pkgs/.cached"
BIO_PATH == "/usr/bin/bio"
CTL_SECRET == "/hab/sup/default/CTL_SECRET"

\* cache.restoreCache(['/hab/cache/artifacts'], cacheKey)
RESTORE_PATHS == {"/hab/cache/artifacts"}
\* cache.saveCache(['/hab/pkgs'], 'hab-pkgs')
SAVE_PATHS == {"/hab/pkgs"}
SAVE_KEY == "hab-pkgs"

CacheKeyInputs == {"", "hab-pkgs"}

Configs ==
    [deps : {getInput(s) : s \in Strings},
     supervisor : {getInput(s) : s \in Strings \cup {TrueStr}},
     cacheKey : CacheKeyInputs]

\* Messages given to core.setFailed; NONE when it was not called
NONE == "(none)"
MSG_INSTALL == "Failed to install Biome"
MSG_USER == "Failed to create hab user"
MSG_VERIFY == "Failed to verify bio installation"
MSG_LINK == "Failed to link ~/.hab/cache"
MSG_OWNERSHIP == "Failed to update cache ownership"
MSG_RESTORE == "Failed to restore package cache"
MSG_DEPS == "Failed to install deps"
MSG_SUPERVISOR == "Failed to start supervisor"
MSG_SERVICE == "Failed to load service"
MSG_SUDOLESS == "Failed to enable sudoless package installation"
MSG_SAVE == "Failed to save package cache"

VARIABLES
    inputs,        \* the workflow's inputs, as core.getInput returns them
    fs,            \* the files of the runner that the routines look at
    sup,           \* the detached supervisor: "off", "running", "ready"
    saved,         \* cache entries the teardown routine has saved on the platform
    restoreCalls,  \* cache.restoreCache invocations in the current job
    saveCalls,     \* cache.saveCache invocations in the current job
    pc,            \* where each process is
    setFailed,     \* the message each run gave core.setFailed, or NONE
    rejected,      \* whether the promise of run() was rejected
    execd,         \* the phases of which the run has executed a command
    loaded,        \* the services for which the run issued bio svc load
    restoredCache  \* who produced the entry restoreCache returned, or "undefined"

vars == <<inputs, fs, sup, saved, restoreCalls, saveCalls, pc, setFailed,
          rejected, execd, loaded, restoredCache>>

job == <<inputs, sup, saved, restoreCalls, saveCalls>>
locals == <<setFailed, rejected, execd, loaded, restoredCache>>

deps == ParseDeps(inputs.deps)
supervisor == ParseSupervisor(inputs.supervisor)
cacheKey == ParseCacheKey(inputs.cacheKey)

\* Entries other workflows or steps may have put on the platform: any path
\* list under any key, any files inside.
ExternalEntries ==
    [paths : {RESTORE_PATHS, SAVE_PATHS},
     key : {SAVE_KEY, DEFAULT_CACHE_KEY},
     by : {"external"},
     files : SUBSET {CACHE_LOCK_PATH}]

\* An entry answers a restore of the same paths under the same key.
Lookup(paths, key) ==
    {e \in saved \cup ExternalEntries : e.paths = paths /\ e.key = key}

Init ==
    /\ inputs \in Configs
    /\ fs \in SUBSET {BIO_PATH}
    /\ sup = "off"
    /\ saved = {}
    /\ restoreCalls = 0
    /\ saveCalls = 0
    /\ pc = [p \in Procs |-> "idle"]
    /\ setFailed = [p \in Procs |-> NONE]
    /\ rejected = [p \in Procs |-> FALSE]
    /\ execd = [p \in Procs |-> {}]
    /\ loaded = [p \in Procs |-> <<>>]
    /\ restoredCache = [p \in Procs |-> "undefined"]

Goto(p, label) == pc' = [pc EXCEPT ![p] = label]
Ran(p, phase) == execd' = [execd EXCEPT ![p] = @ \cup {phase}]

\* catch (err) { core.setFailed(msg); return; }
Catch(p, msg) ==
    /\ setFailed' = [setFailed EXCEPT ![p] = msg]
    /\ Goto(p, "done")

\* No other process is running: invocations follow one another.
Alone(p) == \A q \in Procs \ {p} : pc[q] = "idle"

\* The install entered whatever the length of deps.
AfterRestore_NoLengthCheck == "InstallDeps"

\* if (deps.length)
AfterRestore == IF deps # <<>> THEN "InstallDeps"
                ELSE IF supervisor.kind # "false" THEN "StartSupervisor"
                ELSE "EnableSudoless"

\* if (supervisor)
AfterDeps == IF supervisor.kind # "false" THEN "StartSupervisor" ELSE "EnableSudoless"

\* if (Array.isArray(supervisor)) for (const svc of supervisor)
AfterSupervisor ==
    IF supervisor.kind = "array" /\ supervisor.svcs # <<>>
    THEN "LoadService" ELSE "EnableSudoless"

(***************************************************************************)
(* The setup routine: index.js, run()                                      *)
(***************************************************************************)

\* The platform starts the main entry point: the module is loaded, run() called.
StartSetup(p) ==
    /\ pc[p] = "idle"
    /\ Goto(p, "CheckBio")
    /\ UNCHANGED <<job, fs, locals>>

\* core.exportVariable x3, then await io.which('bio'). Neither is inside a
\* try: a throw rejects the promise run() returned, and the catch around the
\* call of run() never sees it.
CheckBio(p) ==
    /\ pc[p] = "CheckBio"
    /\ Ran(p, "ExportEnv")
    /\ \/ BIO_PATH \in fs /\ Goto(p, "UpdateCacheOwnership") /\ UNCHANGED rejected
       \/ BIO_PATH \notin fs /\ Goto(p, "InstallBiome") /\ UNCHANGED rejected
       \/ Goto(p, "done") /\ rejected' = [rejected EXCEPT ![p] = TRUE]
    /\ UNCHANGED <<job, fs, setFailed, loaded, restoredCache>>

\* wget, tar, sudo mv, sudo chmod, io.rmRF: k of them succeed
InstallBiome(p) ==
    /\ pc[p] = "InstallBiome"
    /\ Ran(p, "InstallBiome")
    /\ \E k \in 0..5 :
        /\ fs' = IF k >= 3 THEN fs \cup {BIO_PATH} ELSE fs
        /\ IF k = 5 THEN Goto(p, "CreateUser") /\ UNCHANGED setFailed
           ELSE Catch(p, MSG_INSTALL)
    /\ UNCHANGED <<job, rejected, loaded, restoredCache>>

\* groupadd, useradd, io.rmRF
CreateUser(p) ==
    /\ pc[p] = "CreateUser"
    /\ Ran(p, "CreateUser")
    /\ \/ Goto(p, "VerifyInstall") /\ UNCHANGED setFailed
       \/ Catch(p, MSG_USER)
    /\ UNCHANGED <<job, fs, rejected, loaded, restoredCache>>

\* bio --version
VerifyInstall(p) ==
    /\ pc[p] = "VerifyInstall"
    /\ Ran(p, "VerifyInstall")
    /\ \/ Goto(p, "LinkCache") /\ UNCHANGED setFailed
       \/ Catch(p, MSG_VERIFY)
    /\ UNCHANGED <<job, fs, rejected, loaded, restoredCache>>

\* mkdir -p ~/.hab, ln -sf /hab/cache ~/.hab/
LinkCache(p) ==
    /\ pc[p] = "LinkCache"
    /\ Ran(p, "LinkCache")
    /\ \/ Goto(p, "UpdateCacheOwnership") /\ UNCHANGED setFailed
       \/ Catch(p, MSG_LINK)
    /\ UNCHANGED <<job, fs, rejected, loaded, restoredCache>>

\* The same phase with the return of its catch left out.
UpdateCacheOwnership_NoReturn(p) ==
    /\ pc[p] = "UpdateCacheOwnership"
    /\ Ran(p, "UpdateCacheOwnership")
    /\ Goto(p, "RestoreCheck")
    /\ \/ UNCHANGED setFailed
       \/ setFailed' = [setFailed EXCEPT ![p] = MSG_OWNERSHIP]
    /\ UNCHANGED <<job, fs, rejected, loaded, restoredCache>>

\* sudo mkdir -p /hab/cache, chown -R, chmod g+s
UpdateCacheOwnership(p) ==
    /\ pc[p] = "UpdateCacheOwnership"
    /\ Ran(p, "UpdateCacheOwnership")
    /\ \/ Goto(p, "RestoreCheck") /\ UNCHANGED setFailed
       \/ Catch(p, MSG_OWNERSHIP)
    /\ UNCHANGED <<job, fs, rejected, loaded, restoredCache>>

\* if (fs.existsSync(RESTORE_LOCK_PATH)) skip, else begin restoring
RestoreCheck(p) ==
    /\ pc[p] = "RestoreCheck"
    /\ \/ RESTORE_LOCK_PATH \in fs /\ Goto(p, AfterRestore)
       \/ RESTORE_LOCK_PATH \notin fs /\ Goto(p, "MkdirArtifacts")
    /\ UNCHANGED <<job, fs, locals>>

\* mkdir -p /hab/cache/artifacts
MkdirArtifacts(p) ==
    /\ pc[p] = "MkdirArtifacts"
    /\ Ran(p, "RestoreCache")
    /\ \/ Goto(p, "WriteRestoreLock") /\ UNCHANGED setFailed
       \/ Catch(p, MSG_RESTORE)
    /\ UNCHANGED <<job, fs, rejected, loaded, restoredCache>>

\* The restore call issued before the lock is written.
WriteRestoreLock_CallFirst(p) ==
    /\ pc[p] = "WriteRestoreLock"
    /\ restoreCalls' = restoreCalls + 1
    /\ \/ /\ fs' = fs \cup {RESTORE_LOCK_PATH}
          /\ Goto(p, "AwaitRestoreCache")
          /\ UNCHANGED setFailed
       \/ /\ Catch(p, MSG_RESTORE)
          /\ UNCHANGED fs
    /\ UNCHANGED <<inputs, sup, saved, saveCalls, rejected, execd, loaded, restoredCache>>

\* fs.writeFileSync(RESTORE_LOCK_PATH, ''), which may throw, and then the call
\* cache.restoreCache(['/hab/cache/artifacts'], cacheKey)
WriteRestoreLock(p) ==
    /\ pc[p] = "WriteRestoreLock"
    /\ \/ /\ fs' = fs \cup {RESTORE_LOCK_PATH}
          /\ restoreCalls' = restoreCalls + 1
          /\ Goto(p, "AwaitRestoreCache")
          /\ UNCHANGED setFailed
       \/ /\ Catch(p, MSG_RESTORE)
          /\ UNCHANGED <<fs, restoreCalls>>
    /\ UNCHANGED <<inputs, sup, saved, saveCalls, rejected, execd, loaded, restoredCache>>

\* The restore call returns: a hit (the entry's files are unpacked), a miss,
\* or an error. After a return the lock is re-written and, if
\* fs.existsSync(CACHE_LOCK_PATH), rm -v "${CACHE_LOCK_PATH}" comes next.
AwaitRestoreCache(p) ==
    /\ pc[p] = "AwaitRestoreCache"
    /\ \/ \E e \in Lookup(RESTORE_PATHS, cacheKey) :
            /\ restoredCache' = [restoredCache EXCEPT ![p] = e.by]
            /\ \/ /\ fs' = fs \cup e.files \cup {RESTORE_LOCK_PATH}
                  /\ Goto(p, IF CACHE_LOCK_PATH \in fs' THEN "EraseCacheLock"
                             ELSE AfterRestore)
                  /\ UNCHANGED setFailed
               \/ /\ fs' = fs \cup e.files
                  /\ Catch(p, MSG_RESTORE)
       \/ /\ UNCHANGED restoredCache
          /\ \/ /\ fs' = fs \cup {RESTORE_LOCK_PATH}
                /\ Goto(p, IF CACHE_LOCK_PATH \in fs' THEN "EraseCacheLock"
                           ELSE AfterRestore)
                /\ UNCHANGED setFailed
             \/ /\ UNCHANGED fs
                /\ Catch(p, MSG_RESTORE)
    /\ UNCHANGED <<job, rejected, execd, loaded>>

\* rm -v "${CACHE_LOCK_PATH}": fails when the file is no longer there
EraseCacheLock(p) ==
    /\ pc[p] = "EraseCacheLock"
    /\ \/ /\ CACHE_LOCK_PATH \in fs
          /\ fs' = fs \ {CACHE_LOCK_PATH}
          /\ Goto(p, AfterRestore)
          /\ UNCHANGED setFailed
       \/ /\ Catch(p, MSG_RESTORE)
          /\ UNCHANGED fs
    /\ UNCHANGED <<job, rejected, execd, loaded, restoredCache>>

\* sudo --preserve-env bio pkg install <deps>
InstallDeps(p) ==
    /\ pc[p] = "InstallDeps"
    /\ Ran(p, "InstallDeps")
    /\ \/ Goto(p, AfterDeps) /\ UNCHANGED setFailed
       \/ Catch(p, MSG_DEPS)
    /\ UNCHANGED <<job, fs, rejected, loaded, restoredCache>>

\* sudo mkdir -p /hab/sup/default; setsid bash -c 'bio sup run ... &'
StartSupervisor(p) ==
    /\ pc[p] = "StartSupervisor"
    /\ Ran(p, "StartSupervisor")
    /\ \/ /\ sup' = IF sup = "off" THEN "running" ELSE sup
          /\ Goto(p, "WaitSecret")
          /\ UNCHANGED setFailed
       \/ /\ Catch(p, MSG_SUPERVISOR)
          /\ UNCHANGED sup
    /\ UNCHANGED <<inputs, saved, restoreCalls, saveCalls, fs, rejected, loaded,
                   restoredCache>>

\* The poll that goes on without looking at the file.
WaitSecret_NoWait(p) ==
    /\ pc[p] = "WaitSecret"
    /\ Goto(p, "RelaxSecret")
    /\ UNCHANGED <<job, fs, locals>>

\* until test -f /hab/sup/default/CTL_SECRET; do sleep .1; done: the command
\* returns once the file is there, and loops as long as it is not
WaitSecret(p) ==
    /\ pc[p] = "WaitSecret"
    /\ CTL_SECRET \in fs
    /\ Goto(p, "RelaxSecret")
    /\ UNCHANGED <<job, fs, locals>>

\* sudo chgrp docker CTL_SECRET; sudo chmod g+r CTL_SECRET
RelaxSecret(p) ==
    /\ pc[p] = "RelaxSecret"
    /\ \/ Goto(p, "WaitStatus") /\ UNCHANGED setFailed
       \/ Catch(p, MSG_SUPERVISOR)
    /\ UNCHANGED <<job, fs, rejected, execd, loaded, restoredCache>>

\* until bio svc status; do sleep .1; done
WaitStatus(p) ==
    /\ pc[p] = "WaitStatus"
    /\ sup = "ready"
    /\ Goto(p, AfterSupervisor)
    /\ UNCHANGED <<job, fs, locals>>

\* One turn of the loop with the return of its catch left out.
LoadService_NoReturn(p) ==
    /\ pc[p] = "LoadService"
    /\ Ran(p, "LoadService")
    /\ loaded' = [loaded EXCEPT ![p] = Append(@, supervisor.svcs[Len(@) + 1])]
    /\ Goto(p, IF Len(loaded'[p]) < Len(supervisor.svcs) THEN "LoadService"
               ELSE "EnableSudoless")
    /\ \/ UNCHANGED setFailed
       \/ setFailed' = [setFailed EXCEPT ![p] = MSG_SERVICE]
    /\ UNCHANGED <<job, fs, rejected, restoredCache>>

\* for (const svc of supervisor) bio svc load ${svc}: one turn of the loop
LoadService(p) ==
    /\ pc[p] = "LoadService"
    /\ Ran(p, "LoadService")
    /\ loaded' = [loaded EXCEPT ![p] = Append(@, supervisor.svcs[Len(@) + 1])]
    /\ \/ /\ Goto(p, IF Len(loaded'[p]) < Len(supervisor.svcs) THEN "LoadService"
                     ELSE "EnableSudoless")
          /\ UNCHANGED setFailed
       \/ Catch(p, MSG_SERVICE)
    /\ UNCHANGED <<job, fs, rejected, restoredCache>>

\* sudo chown -R runner:docker /hab/pkgs; find /hab/pkgs ... chmod g+ws
EnableSudoless(p) ==
    /\ pc[p] = "EnableSudoless"
    /\ Ran(p, "EnableSudoless")
    /\ \/ Goto(p, "done") /\ UNCHANGED setFailed
       \/ Catch(p, MSG_SUDOLESS)
    /\ UNCHANGED <<job, fs, rejected, loaded, restoredCache>>

(***************************************************************************)
(* The detached supervisor: bio sup run                                    *)
(***************************************************************************)
SupervisorInit ==
    /\ sup = "running"
    /\ CTL_SECRET \notin fs
    /\ fs' = fs \cup {CTL_SECRET}
    /\ UNCHANGED <<job, pc, locals>>

SupervisorReady ==
    /\ sup = "running"
    /\ CTL_SECRET \in fs
    /\ sup' = "ready"
    /\ UNCHANGED <<inputs, saved, restoreCalls, saveCalls, fs, pc, locals>>

(***************************************************************************)
(* The teardown routine: post.js, run()                                    *)
(***************************************************************************)
StartPost(p) ==
    /\ pc[p] = "idle"
    /\ Goto(p, "SaveCheck")
    /\ UNCHANGED <<job, fs, locals>>

\* The save begun without looking at the lock.
SaveCheck_NoCheck(p) ==
    /\ pc[p] = "SaveCheck"
    /\ Goto(p, "WriteCacheLock")
    /\ UNCHANGED <<job, fs, locals>>

\* if (fs.existsSync(CACHE_LOCK_PATH)) skip, else begin saving
SaveCheck(p) ==
    /\ pc[p] = "SaveCheck"
    /\ \/ POST_CACHE_LOCK_PATH \in fs /\ Goto(p, "done")
       \/ POST_CACHE_LOCK_PATH \notin fs /\ Goto(p, "WriteCacheLock")
    /\ UNCHANGED <<job, fs, locals>>

\* The save call issued before the lock is written.
WriteCacheLock_CallFirst(p) ==
    /\ pc[p] = "WriteCacheLock"
    /\ Ran(p, "SaveCache")
    /\ saveCalls' = saveCalls + 1
    /\ \/ /\ fs' = fs \cup {POST_CACHE_LOCK_PATH}
          /\ Goto(p, "AwaitSaveCache")
          /\ UNCHANGED setFailed
       \/ /\ Catch(p, MSG_SAVE)
          /\ UNCHANGED fs
    /\ UNCHANGED <<inputs, sup, saved, restoreCalls, rejected, loaded, restoredCache>>

\* fs.writeFileSync(CACHE_LOCK_PATH, ''), which may throw, and then the call
\* cache.saveCache(['/hab/pkgs'], 'hab-pkgs')
WriteCacheLock(p) ==
    /\ pc[p] = "WriteCacheLock"
    /\ Ran(p, "SaveCache")
    /\ \/ /\ fs' = fs \cup {POST_CACHE_LOCK_PATH}
          /\ saveCalls' = saveCalls + 1
          /\ Goto(p, "AwaitSaveCache")
          /\ UNCHANGED setFailed
       \/ /\ Catch(p, MSG_SAVE)
          /\ UNCHANGED <<fs, saveCalls>>
    /\ UNCHANGED <<inputs, sup, saved, restoreCalls, rejected, loaded, restoredCache>>

\* The artifacts directory saved in place of the packages directory.
SavedEntry_Artifacts ==
    [paths |-> RESTORE_PATHS, key |-> SAVE_KEY, by |-> "post",
     files |-> {POST_CACHE_LOCK_PATH}]

\* The entry the teardown routine saves: what is under /hab/pkgs, the lock
\* included, under the fixed key.
SavedEntry ==
    [paths |-> SAVE_PATHS, key |-> SAVE_KEY, by |-> "post",
     files |-> {POST_CACHE_LOCK_PATH}]

\* The save call returns: an entry was made, none was, or an error.
AwaitSaveCache(p) ==
    /\ pc[p] = "AwaitSaveCache"
    /\ \/ /\ saved' = saved \cup {SavedEntry}
          /\ Goto(p, "done")
          /\ UNCHANGED setFailed
       \/ /\ UNCHANGED saved
          /\ Goto(p, "done")
          /\ UNCHANGED setFailed
       \/ /\ UNCHANGED saved
          /\ Catch(p, MSG_SAVE)
    /\ UNCHANGED <<inputs, sup, restoreCalls, saveCalls, fs, rejected, execd, loaded,
                   restoredCache>>

(***************************************************************************)
(* The platform                                                            *)
(***************************************************************************)

\* The process of a finished run exits.
Exit(p) ==
    /\ pc[p] = "done"
    /\ Goto(p, "idle")
    /\ setFailed' = [setFailed EXCEPT ![p] = NONE]
    /\ rejected' = [rejected EXCEPT ![p] = FALSE]
    /\ execd' = [execd EXCEPT ![p] = {}]
    /\ loaded' = [loaded EXCEPT ![p] = <<>>]
    /\ restoredCache' = [restoredCache EXCEPT ![p] = "undefined"]
    /\ UNCHANGED <<job, fs>>

\* The next job of the workflow: on the same runner with its files as they
\* are left, or on a fresh one. The supervisor of the last job is gone.
NewJob ==
    /\ \A p \in Procs : pc[p] = "idle"
    /\ \/ UNCHANGED fs
       \/ fs' \in SUBSET {BIO_PATH}
    /\ sup' = "off"
    /\ restoreCalls' = 0
    /\ saveCalls' = 0
    /\ UNCHANGED <<inputs, saved, pc, locals>>

Step(p) ==
    \/ CheckBio(p) \/ InstallBiome(p) \/ CreateUser(p) \/ VerifyInstall(p)
    \/ LinkCache(p) \/ UpdateCacheOwnership(p) \/ RestoreCheck(p)
    \/ MkdirArtifacts(p) \/ WriteRestoreLock(p) \/ AwaitRestoreCache(p)
    \/ EraseCacheLock(p) \/ InstallDeps(p) \/ StartSupervisor(p)
    \/ WaitSecret(p) \/ RelaxSecret(p) \/ WaitStatus(p) \/ LoadService(p)
    \/ EnableSudoless(p)
    \/ SaveCheck(p) \/ WriteCacheLock(p) \/ AwaitSaveCache(p)
    \/ Exit(p)

Environment == SupervisorInit \/ SupervisorReady \/ NewJob

\* Invocations one after another, as the platform runs the steps of a job.
Next ==
    \/ \E p \in Procs : Alone(p) /\ (StartSetup(p) \/ StartPost(p))
    \/ \E p \in Procs : Step(p)
    \/ Environment

Spec == Init /\ [][Next]_vars

\* Invocations that may overlap.
NextConcurrent ==
    \/ \E p \in Procs : StartSetup(p) \/ StartPost(p)
    \/ \E p \in Procs : Step(p)
    \/ Environment

\* The concurrent runs are explored for the shortest inputs that reach every
\* phase: the markers do not depend on the inputs.
InitConcurrent ==
    /\ Init
    /\ inputs.deps \in {<<>>, <<"a">>}
    /\ inputs.supervisor \in {<<>>, TrueStr, <<"a">>}
    /\ inputs.cacheKey = ""

SpecConcurrent == InitConcurrent /\ [][NextConcurrent]_vars

\* The runs whose end is at stake differ in the supervisor input: the other
\* inputs are taken as short as reaches every phase.
InitFair ==
    /\ Init
    /\ inputs.deps \in {<<>>, <<"a">>}
    /\ inputs.cacheKey = ""

\* Every external command returns, so a run that can take a step takes it. The
\* supervisor is another program: nothing says it ever writes its secret.
SpecFair ==
    InitFair /\ [][Next]_vars /\ \A p \in Procs : WF_vars(Step(p))

(***************************************************************************)
(* Properties                                                              *)
(***************************************************************************)
IsSetupRun(p) == "ExportEnv" \in execd[p]
SkippedSave(p) == pc[p] = "done" /\ execd[p] = {}
InRestorePhase(p) ==
    pc[p] \in {"MkdirArtifacts", "WriteRestoreLock", "AwaitRestoreCache", "EraseCacheLock"}
Ended(p) == setFailed[p] # NONE \/ rejected[p]

\* C1: in a job whose invocations follow one another, cache.restoreCache is
\* called at most once, and once it has been called the restore lock is there,
\* so that every later invocation skips the restore, also after a restore that
\* failed.
C1_RestoreAtMostOnce ==
    /\ restoreCalls <= 1
    /\ restoreCalls = 1 => RESTORE_LOCK_PATH \in fs

\* A run past the restore phase that did not restore, in a job where the
\* restore call was made (by an earlier invocation).
C1_Witness ==
    \E p \in Procs :
        /\ restoreCalls = 1
        /\ IsSetupRun(p)
        /\ "RestoreCache" \notin execd[p]
        /\ pc[p] \in {"InstallDeps", "StartSupervisor", "EnableSudoless"}

\* C2: in a job whose invocations follow one another, cache.saveCache is
\* called at most once, and once it has been called the save lock stays
\* written, whether the call failed or not, so that every later teardown skips.
C2_SaveAtMostOnce ==
    /\ saveCalls <= 1
    /\ saveCalls = 1 => POST_CACHE_LOCK_PATH \in fs

\* A teardown that skipped in a job where the save call was made before.
C2_Witness ==
    \E p \in Procs : SkippedSave(p) /\ saveCalls = 1

\* C3: when the restore phase of a setup run completes, the lock the teardown
\* routine checks is gone, also when a previous job left it (no save call was
\* made in this job).
C3_RestoreErasesSaveLock ==
    [][\A p \in Procs :
          (InRestorePhase(p) /\ ~InRestorePhase(p)' /\ pc'[p] # "done" /\ saveCalls = 0)
              => POST_CACHE_LOCK_PATH \notin fs']_vars

\* C4: once a run has reported a failure (or its promise was rejected), it
\* executes no further command: the phases it has executed and the services it
\* has loaded stay as they are until the process exits.
C4_NoPhaseAfterFailure ==
    [][\A p \in Procs :
          Ended(p) =>
              \/ pc'[p] = "idle"
              \/ /\ execd'[p] = execd[p]
                 /\ loaded'[p] = loaded[p]
                 /\ pc'[p] = "done"]_vars

\* A run that failed installing the deps and ended there.
C4_Witness ==
    \E p \in Procs :
        /\ setFailed[p] = MSG_DEPS
        /\ pc[p] = "done"
        /\ "EnableSudoless" \notin execd[p]

\* C5: a run that ended in an error has called core.setFailed, also when the
\* error rejected the promise of run().
C5_EveryFailureReported ==
    \A p \in Procs : rejected[p] => setFailed[p] # NONE

SetupOnlyPhases ==
    {"ExportEnv", "InstallBiome", "CreateUser", "VerifyInstall", "LinkCache",
     "UpdateCacheOwnership", "RestoreCache"}

\* C6, as claimed: with the supervisor input unset and no deps, a setup run
\* executes the environment export, the binary handling, the cache directory
\* provisioning and the cache restore, and nothing else.
C6_OnlyFourPhases ==
    \A p \in Procs :
        (IsSetupRun(p) /\ supervisor.kind = "false" /\ deps = <<>>)
            => execd[p] \subseteq SetupOnlyPhases

\* C6, amended: with the supervisor input unset and no deps, a setup run
\* executes those phases and the final phase on /hab/pkgs, which every run
\* that completes has executed; it installs no package and starts no
\* supervisor.
C6_FourPhasesAndSudoless ==
    \A p \in Procs :
        (IsSetupRun(p) /\ supervisor.kind = "false" /\ deps = <<>>)
            => /\ execd[p] \subseteq SetupOnlyPhases \cup {"EnableSudoless"}
               /\ loaded[p] = <<>>
               /\ (pc[p] = "done" /\ ~Ended(p)) => "EnableSudoless" \in execd[p]

C6_Witness ==
    \E p \in Procs :
        /\ supervisor.kind = "false" /\ deps = <<>>
        /\ pc[p] = "done" /\ ~Ended(p)
        /\ execd[p] = {"ExportEnv", "UpdateCacheOwnership", "RestoreCache", "EnableSudoless"}

\* C7: services are loaded only once the supervisor answers the status query;
\* the input 'true' loads none; the loads follow the list, one per service in
\* order; and when a load fails the run ends there, with no further load and
\* without the final phase.
C7_ServiceLoads ==
    /\ [](\A p \in Procs :
            /\ loaded[p] # <<>> => sup = "ready"
            /\ inputs.supervisor = TrueStr => loaded[p] = <<>>
            /\ Len(loaded[p]) <= Len(supervisor.svcs)
            /\ loaded[p] = SubSeq(supervisor.svcs, 1, Len(loaded[p]))
            /\ setFailed[p] = MSG_SERVICE
                  => pc[p] = "done" /\ "EnableSudoless" \notin execd[p])
    /\ [][\A p \in Procs :
            setFailed[p] = MSG_SERVICE => (loaded'[p] = loaded[p] \/ pc'[p] = "idle")]_vars

\* The load of the first of two services failed and the second was not loaded.
C7_Witness ==
    \E p \in Procs :
        /\ setFailed[p] = MSG_SERVICE
        /\ Len(supervisor.svcs) = 2
        /\ Len(loaded[p]) = 1

PendingSave == Cardinality({p \in Procs : pc[p] = "WriteCacheLock"})
PendingRestore ==
    Cardinality({p \in Procs : pc[p] \in {"MkdirArtifacts", "WriteRestoreLock"}})

\* C8, as claimed: with invocations that overlap, the save call and the
\* restore call are still made at most once in a job.
C8_AtMostOnceConcurrently ==
    saveCalls <= 1 /\ restoreCalls <= 1

\* C8, amended: with invocations that overlap, a call is made only once its
\* lock is written, and only by an invocation that found no lock: the calls
\* made, with the invocations that are past the check and before the write,
\* are at most as many as the invocations, two for two invocations.
C8_AtMostOncePerInvocation ==
    /\ saveCalls >= 1 => POST_CACHE_LOCK_PATH \in fs
    /\ restoreCalls >= 1 => RESTORE_LOCK_PATH \in fs
    /\ saveCalls + PendingSave <= Cardinality(Procs)
    /\ restoreCalls + PendingRestore <= Cardinality(Procs)

\* Two teardown runs that both found no lock and both called the save.
C8_Witness ==
    /\ saveCalls = 2
    /\ \A p \in Procs : pc[p] = "AwaitSaveCache"

C10_SavedNeverRestored ==
    /\ \A e \in saved : e.paths = SAVE_PATHS /\ e.key = SAVE_KEY
    /\ Lookup(RESTORE_PATHS, cacheKey) \cap saved = {}
    /\ \A p \in Procs : restoredCache[p] \in {"undefined", "external"}

\* A restore under the very key of the teardown's entry, answered from elsewhere.
C10_Witness ==
    \E p \in Procs :
        /\ saved # {}
        /\ cacheKey = SAVE_KEY
        /\ restoredCache[p] = "external"

====
